---- MODULE Spec2Model ----
(***************************************************************************)
(* Model of llmux.py: NotebookLMNode (one remote notebook handle) and      *)
(* NotebookLMScheduler (node pool, document distribution, query rounds).   *)
(*                                                                         *)
(* Granularity.  asyncio runs a coroutine without interruption up to its   *)
(* first suspending await, so one action is one such synchronous run:      *)
(*   - a facade call up to its first network await;                        *)
(*   - the first steps of the tasks asyncio.gather creates (they are       *)
(*     queued back to back on the loop's FIFO ready queue, so they run     *)
(*     consecutively, in task order);                                      *)
(*   - the arrival of one HTTP response and the code that runs on it.      *)
(* The remote service is the environment: it answers 200 with a payload,   *)
(* answers with an error body, or (for queries) never answers.             *)
(*                                                                         *)
(* Concurrency.  Facade calls of different kinds run concurrently: the     *)
(* pool mutators (add_node, initialize_nodes) and initialize_scheduler     *)
(* interleave with a distribution or a query round at every await.  At     *)
(* most one pool-using call (distribute_documents or process_query) is     *)
(* followed at a time: a new one starts once the tasks of the previous     *)
(* one have ended, and its frame replaces the previous one's.              *)
(***************************************************************************)
EXTENDS Integers, Sequences, FiniteSets, TLC

\* ----------------------------------------------------------------------
\* Bounds of the model
\* ----------------------------------------------------------------------
MaxHandles == 2
MaxCreates == 2
MaxLabels == 2
MaxDocs == 2
MaxCap == 2

Agg == 0
Workers == 1..MaxHandles
Handles == {Agg} \cup Workers
None == 0

LabelNames == <<"A", "B", "C">>
DocNames == <<"a", "b", "c", "d">>
\* the inputs: the first n labels, the first n document paths
NodeNameLists == {SubSeq(LabelNames, 1, n) : n \in 0..MaxLabels}
DocumentLists == {SubSeq(DocNames, 1, n) : n \in 0..MaxDocs}
Docs == {DocNames[n] : n \in 1..MaxDocs}
Questions == {"q1"}
Answers == {"x", "y"}
RemoteErrors == {"e1"}
Caps == (-1)..MaxCap

\* ----------------------------------------------------------------------
\* Helpers
\* ----------------------------------------------------------------------
Min(a, b) == IF a <= b THEN a ELSE b

\* str(i): decimal rendering of the small positive integers the model uses
Str(i) == CASE i = 0 -> "0" [] i = 1 -> "1" [] i = 2 -> "2" [] i = 3 -> "3" [] i = 4 -> "4"
            [] i = 5 -> "5" [] OTHER -> "n"

\* Python slice s[lo:hi] for 0 <= lo, 0 <= hi (0-based, hi exclusive)
Slice(s, lo, hi) ==
    LET h == Min(hi, Len(s))
    IN  IF lo >= h THEN <<>> ELSE [j \in 1..(h - lo) |-> s[lo + j]]

\* Exceptions: Exception(msg) where msg is a fixed text plus, for the remote
\* failures, the error body of the response
NoErr == [msg |-> "", detail |-> ""]
Exc(m, d) == [msg |-> m, detail |-> d]
NotCreated == Exc("Notebook not created yet", "")

VARIABLES
    nodes,          \* NotebookLMScheduler.nodes: sequence of handles
    notebook_id,    \* NotebookLMNode.notebook_id of every handle: None, or g for
                    \* the id of the g-th notebook the service created through it
    node_id,        \* NotebookLMNode.node_id of every handle ("" = not constructed)
    allocated,      \* number of worker handles constructed so far
    creating,       \* the name in the create_notebook request in flight on a handle
    workspaces,     \* the remote service: display name of the handle's notebook
    initN,          \* the initialize_nodes call
    dist,           \* the distribute_documents call
    utasks,         \* its upload_document tasks
    round,          \* the process_query call
    qtasks,         \* its ask_question tasks
    doneOrder       \* indices of qtasks in order of completion

vars == <<nodes, notebook_id, node_id, allocated, creating, workspaces,
          initN, dist, utasks, round, qtasks, doneOrder>>

nodeVars == <<nodes, notebook_id, node_id, allocated, creating, workspaces>>
distVars == <<dist, utasks>>
roundVars == <<round, qtasks, doneOrder>>

NoWs == [name |-> "", node |-> ""]
ExtName == "X"

NoInit == [phase |-> "idle", node_names |-> <<>>, nodes |-> <<>>, node |-> None,
           err |-> NoErr]
NoDist == [phase |-> "idle", document_paths |-> <<>>, documents_per_node |-> 0,
           pool |-> <<>>, err |-> NoErr]
NoRound == [phase |-> "idle", question |-> "", pool |-> <<>>, responses |-> <<>>,
            summary_request |-> <<>>, aggCalls |-> 0, final_response |-> "",
            err |-> NoErr]

\* NotebookLMScheduler.__init__: empty pool, one scheduler node, nothing created
Init ==
    /\ nodes = <<>>
    /\ notebook_id = [h \in Handles |-> None]
    /\ node_id = [h \in Handles |-> IF h = Agg THEN "scheduler" ELSE ""]
    /\ allocated = 0
    /\ creating = [h \in Handles |-> ""]
    /\ workspaces = [h \in Handles |-> NoWs]
    /\ initN = NoInit
    /\ dist = NoDist
    /\ utasks = <<>>
    /\ round = NoRound
    /\ qtasks = <<>>
    /\ doneOrder = <<>>

\* ----------------------------------------------------------------------
\* NotebookLMNode.create_notebook
\* ----------------------------------------------------------------------
\* the call up to the POST: the request carries "<name> - Node <node_id>"
CreateRequest(h, name) ==
    creating' = [creating EXCEPT ![h] = name]

\* status 200: the service has created a notebook under the name of the request
\* and self.notebook_id = data["name"].split("/")[-1], a fresh id
CreateBind(h) ==
    /\ notebook_id[h] < MaxCreates
    /\ notebook_id' = [notebook_id EXCEPT ![h] = notebook_id[h] + 1]
    /\ workspaces' = [workspaces EXCEPT ![h] =
                          [name |-> creating[h], node |-> node_id[h]]]

\* any other status: raise Exception("Failed to create notebook: <error>")
CreateRaise(h, e) ==
    UNCHANGED <<notebook_id, workspaces>>

\* the handle initialize_nodes is waiting for, if any
InitCur == IF initN.phase = "creating" THEN initN.node ELSE -1

\* handles the running initialize_nodes call has still to construct
Reserved ==
    IF initN.phase = "creating"
      THEN Len(initN.node_names) - Len(initN.nodes) - 1
      ELSE 0

\* ----------------------------------------------------------------------
\* NotebookLMScheduler.initialize_scheduler
\* ----------------------------------------------------------------------
InitializeScheduler ==
    /\ creating[Agg] = ""
    /\ CreateRequest(Agg, "Scheduler Node")
    /\ UNCHANGED <<nodes, notebook_id, node_id, allocated, workspaces, initN>>
    /\ UNCHANGED <<distVars, roundVars>>

\* the response to the create_notebook initialize_scheduler is awaiting
CreateReply(h) ==
    /\ creating[h] # ""
    /\ h # InitCur
    /\ \/ CreateBind(h)
       \/ \E e \in RemoteErrors : CreateRaise(h, e)
    /\ creating' = [creating EXCEPT ![h] = ""]
    /\ UNCHANGED <<nodes, node_id, allocated, initN>>
    /\ UNCHANGED <<distVars, roundVars>>

\* ----------------------------------------------------------------------
\* NotebookLMScheduler.add_node
\* ----------------------------------------------------------------------
\* the caller passes a node it has built: NotebookLMNode(api_key, id), with or
\* without a notebook it has already created through it
AddNode(created) ==
    /\ allocated + Reserved < MaxHandles
    /\ allocated' = allocated + 1
    /\ node_id' = [node_id EXCEPT ![allocated + 1] = "ext"]
    /\ notebook_id' = [notebook_id EXCEPT ![allocated + 1] =
                           IF created THEN 1 ELSE None]
    /\ workspaces' = [workspaces EXCEPT ![allocated + 1] =
                          IF created THEN [name |-> ExtName, node |-> "ext"] ELSE NoWs]
    /\ nodes' = Append(nodes, allocated + 1)
    /\ UNCHANGED <<creating, initN>>
    /\ UNCHANGED <<distVars, roundVars>>

\* add_node takes any NotebookLMNode and appends it unexamined; the scheduler's
\* own scheduler_node is a public attribute, so a caller can pass that one too
AddSchedulerNode ==
    /\ Len(nodes) < MaxHandles
    /\ nodes' = Append(nodes, Agg)
    /\ UNCHANGED <<notebook_id, node_id, allocated, creating, workspaces, initN>>
    /\ UNCHANGED <<distVars, roundVars>>

\* ----------------------------------------------------------------------
\* NotebookLMScheduler.initialize_nodes
\* ----------------------------------------------------------------------
\* the call up to its first await: nodes = [], then for the first label
\* node = NotebookLMNode(api_key, str(i+1)) and the POST of create_notebook(name);
\* with no label the loop is skipped and self.nodes = [] at once
InitializeNodes(node_names) ==
    /\ initN.phase # "creating"
    /\ allocated + Len(node_names) <= MaxHandles
    /\ IF node_names = <<>>
         THEN /\ nodes' = <<>>
              /\ initN' = [NoInit EXCEPT !.phase = "ok"]
              /\ UNCHANGED <<allocated, node_id, creating>>
         ELSE /\ allocated' = allocated + 1
              /\ node_id' = [node_id EXCEPT ![allocated + 1] = Str(0 + 1)]
              /\ CreateRequest(allocated + 1, node_names[1])
              /\ initN' = [NoInit EXCEPT !.phase = "creating",
                                         !.node_names = node_names,
                                         !.node = allocated + 1]
              /\ UNCHANGED nodes
    /\ UNCHANGED <<notebook_id, workspaces>>
    /\ UNCHANGED <<distVars, roundVars>>

\* self.nodes.extend(nodes) after the loop: the new handles join the old pool
PoolAfterLabelExtending(pool, created, last) ==
    IF last THEN pool \o created ELSE pool

\* self.nodes assigned inside the loop: the pool follows the local list
PoolAfterLabelEager(pool, created, last) == created

\* self.nodes once the create_notebook for a label has returned 200: the local
\* list replaces it after the last label only (line 112, after the loop)
PoolAfterLabel(pool, created, last) == IF last THEN created ELSE pool

\* the response to the create_notebook the loop is awaiting: on 200 the node is
\* appended to the local list and the loop goes on to the next label, or, after
\* the last one, self.nodes = nodes; on an error the exception leaves the call
InitNodesReply ==
    /\ initN.phase = "creating"
    /\ LET h == initN.node
           done == Append(initN.nodes, h)
           i == Len(done)
       IN  \/ /\ CreateBind(h)
              /\ IF i < Len(initN.node_names)
                   THEN /\ allocated' = allocated + 1
                        /\ node_id' = [node_id EXCEPT ![allocated + 1] = Str(i + 1)]
                        /\ creating' = [creating EXCEPT ![h] = "",
                                           ![allocated + 1] = initN.node_names[i + 1]]
                        /\ initN' = [initN EXCEPT !.nodes = done,
                                                  !.node = allocated + 1]
                        /\ nodes' = PoolAfterLabel(nodes, done, FALSE)
                   ELSE /\ creating' = [creating EXCEPT ![h] = ""]
                        /\ nodes' = PoolAfterLabel(nodes, done, TRUE)
                        /\ initN' = [initN EXCEPT !.nodes = done, !.node = None,
                                                  !.phase = "ok"]
                        /\ UNCHANGED <<allocated, node_id>>
           \/ \E e \in RemoteErrors :
                 /\ CreateRaise(h, e)
                 /\ creating' = [creating EXCEPT ![h] = ""]
                 /\ initN' = [initN EXCEPT !.phase = "failed", !.node = None,
                                           !.err = Exc("Failed to create notebook", e)]
                 /\ UNCHANGED <<nodes, allocated, node_id>>
    /\ UNCHANGED <<distVars, roundVars>>

\* ----------------------------------------------------------------------
\* NotebookLMScheduler.distribute_documents
\* ----------------------------------------------------------------------
\* one node too many counted
CapacityExceededOffByOne(document_paths, n, documents_per_node) ==
    Len(document_paths) > (n + 1) * documents_per_node

\* the guard of line 117
CapacityExceeded(document_paths, n, documents_per_node) ==
    Len(document_paths) > n * documents_per_node

\* slices counted from 1
NodeDocsFromOne(document_paths, i, documents_per_node) ==
    LET start_idx == i * documents_per_node + 1
        end_idx == Min(start_idx + documents_per_node, Len(document_paths))
    IN  Slice(document_paths, start_idx, end_idx)

\* node_docs of the node at 0-based pool position i (lines 122-124)
NodeDocs(document_paths, i, documents_per_node) ==
    LET start_idx == i * documents_per_node
        end_idx == Min(start_idx + documents_per_node, Len(document_paths))
    IN  Slice(document_paths, start_idx, end_idx)

NewUpload(h, i, doc) ==
    [node |-> h, pos |-> i, doc |-> doc, st |-> "created", calls |-> 0,
     read |-> FALSE, sent |-> FALSE, err |-> NoErr]

\* the tasks list after the first n nodes of the pool (lines 120-127)
RECURSIVE UploadTasks(_, _, _, _)
UploadTasks(pool, document_paths, documents_per_node, n) ==
    IF n = 0 THEN <<>>
    ELSE LET node_docs == NodeDocs(document_paths, n - 1, documents_per_node)
         IN  UploadTasks(pool, document_paths, documents_per_node, n - 1)
               \o [j \in 1..Len(node_docs) |-> NewUpload(pool[n], n - 1, node_docs[j])]

InFlight(phase) ==
    phase \in {"running", "dispatched", "collecting", "collected", "synthesizing"}

Settled(tasks) == \A k \in 1..Len(tasks) : tasks[k].st \in {"ok", "failed", "hung"}
Failed(tasks) == {k \in 1..Len(tasks) : tasks[k].st = "failed"}
FirstFailed(tasks) == CHOOSE k \in Failed(tasks) : \A m \in Failed(tasks) : k <= m

\* no pool-using call is running and no task of the last one is pending
PoolFree ==
    /\ ~InFlight(dist.phase)
    /\ ~InFlight(round.phase)
    /\ Settled(utasks)
    /\ Settled(qtasks)

\* the call up to "await asyncio.gather(*tasks)"; gather of no task is already
\* done, so the call then runs to its end without suspending
DistributeDocuments(document_paths, documents_per_node) ==
    /\ PoolFree
    /\ LET call == [NoDist EXCEPT !.document_paths = document_paths,
                                  !.documents_per_node = documents_per_node,
                                  !.pool = nodes]
           tasks == UploadTasks(nodes, document_paths, documents_per_node, Len(nodes))
       IN  IF CapacityExceeded(document_paths, Len(nodes), documents_per_node)
             THEN /\ dist' = [call EXCEPT !.phase = "failed",
                                          !.err = Exc("Too many documents", "")]
                  /\ utasks' = <<>>
             ELSE /\ dist' = [call EXCEPT !.phase =
                                   IF tasks = <<>> THEN "ok" ELSE "running"]
                  /\ utasks' = tasks
    /\ round' = NoRound
    /\ qtasks' = <<>>
    /\ doneOrder' = <<>>
    /\ UNCHANGED <<nodeVars, initN>>

\* the document read before the notebook_id check
UploadStepReadFirst(t, unreadable) ==
    IF t.doc \in unreadable
      THEN [t EXCEPT !.st = "failed", !.calls = t.calls + 1, !.read = TRUE,
                     !.err = Exc("No such file or directory", t.doc)]
      ELSE IF notebook_id[t.node] = None
        THEN [t EXCEPT !.st = "failed", !.calls = t.calls + 1, !.read = TRUE,
                       !.err = NotCreated]
        ELSE [t EXCEPT !.st = "inflight", !.calls = t.calls + 1, !.read = TRUE,
                       !.sent = TRUE]

\* NotebookLMNode.upload_document up to its POST, on a task not yet started:
\* the notebook_id check, then open(document_path), then the request;
\* calls counts the runs of upload_document for the task
UploadStep(t, unreadable) ==
    IF notebook_id[t.node] = None
      THEN [t EXCEPT !.st = "failed", !.calls = t.calls + 1, !.err = NotCreated]
      ELSE IF t.doc \in unreadable
        THEN [t EXCEPT !.st = "failed", !.calls = t.calls + 1, !.read = TRUE,
                       !.err = Exc("No such file or directory", t.doc)]
        ELSE [t EXCEPT !.st = "inflight", !.calls = t.calls + 1, !.read = TRUE,
                       !.sent = TRUE]

\* gather(*tasks, return_exceptions=True): the call returns once every task has
\* ended, failed ones included
DistAfterReturnExceptions(d, tasks) ==
    IF d.phase # "running" THEN d
    ELSE IF \A k \in 1..Len(tasks) : tasks[k].st \in {"ok", "failed"}
      THEN [d EXCEPT !.phase = "ok"]
      ELSE d

\* what the awaiting distribute_documents sees of its gather: the first
\* exception of a task, or the end of all of them
DistAfter(d, tasks) ==
    IF d.phase # "running" THEN d
    ELSE IF Failed(tasks) # {}
      THEN [d EXCEPT !.phase = "failed", !.err = tasks[FirstFailed(tasks)].err]
      ELSE IF \A k \in 1..Len(tasks) : tasks[k].st = "ok"
        THEN [d EXCEPT !.phase = "ok"]
        ELSE d

\* the first steps of the upload tasks, in task order
UploadStart ==
    /\ utasks # <<>>
    /\ \A k \in 1..Len(utasks) : utasks[k].st = "created"
    /\ \E unreadable \in SUBSET Docs :
         /\ utasks' = [k \in 1..Len(utasks) |-> UploadStep(utasks[k], unreadable)]
         /\ dist' = DistAfter(dist, utasks')
    /\ UNCHANGED <<nodeVars, initN, roundVars>>

\* the response to one upload: 200 returns data["document_id"], anything else
\* raises Exception("Failed to upload document: <error>")
UploadReply(k) ==
    /\ utasks[k].st = "inflight"
    /\ \/ utasks' = [utasks EXCEPT ![k].st = "ok"]
       \/ \E e \in RemoteErrors :
            utasks' = [utasks EXCEPT ![k].st = "failed",
                                     ![k].err = Exc("Failed to upload document", e)]
    /\ dist' = DistAfter(dist, utasks')
    /\ UNCHANGED <<nodeVars, initN, roundVars>>

\* ----------------------------------------------------------------------
\* NotebookLMScheduler.process_query
\* ----------------------------------------------------------------------
NewQuery(h) == [node |-> h, st |-> "created", calls |-> 0, res |-> "", err |-> NoErr]

\* tasks = [node.ask_question(question) for node in self.nodes]
QueryTasks(pool) == [i \in 1..Len(pool) |-> NewQuery(pool[i])]

\* results appended as the tasks complete
GatherAsCompleted(tasks, order) == [i \in 1..Len(tasks) |-> tasks[order[i]].res]

\* the result list of asyncio.gather: the results of its awaitables, in the
\* order the awaitables were passed
Gather(tasks, order) == [i \in 1..Len(tasks) |-> tasks[i].res]

\* one block per node of self.nodes as it is when the request is built
SummaryRequestOfPool(question, responses) ==
    <<[kind |-> "question", label |-> "", text |-> question]>>
      \o [i \in 1..Len(nodes) |->
            [kind |-> "response", label |-> Str(i),
             text |-> IF i <= Len(responses) THEN responses[i] ELSE ""]]
      \o <<[kind |-> "instructions", label |-> "", text |-> ""]>>

\* the blocks labelled with enumerate's index i instead of i + 1
SummaryRequestZeroBased(question, responses) ==
    <<[kind |-> "question", label |-> "", text |-> question]>>
      \o [i \in 1..Len(responses) |->
            [kind |-> "response", label |-> Str(i - 1), text |-> responses[i]]]
      \o <<[kind |-> "instructions", label |-> "", text |-> ""]>>

\* summary_request (lines 142-153): the question, a rule, the blocks
\* "Node <i+1> Response:\n<response>" joined by blank lines, a rule, the request
SummaryRequest(question, responses) ==
    <<[kind |-> "question", label |-> "", text |-> question]>>
      \o [i \in 1..Len(responses) |->
            [kind |-> "response", label |-> Str(i), text |-> responses[i]]]
      \o <<[kind |-> "instructions", label |-> "", text |-> ""]>>

\* lines 141-156 up to the POST of scheduler_node.ask_question(summary_request)
Synthesis(r, responses) ==
    LET req == SummaryRequest(r.question, responses)
    IN  IF notebook_id[Agg] = None
          THEN [r EXCEPT !.phase = "failed", !.responses = responses,
                         !.summary_request = req, !.err = NotCreated]
          ELSE [r EXCEPT !.phase = "synthesizing", !.responses = responses,
                         !.summary_request = req, !.aggCalls = r.aggCalls + 1]

\* the call up to "await asyncio.gather(*tasks)"; gather of no task is already
\* done, so with an empty pool the call runs on to the scheduler node's POST
ProcessQuery(question) ==
    /\ PoolFree
    /\ LET call == [NoRound EXCEPT !.question = question, !.pool = nodes]
           tasks == QueryTasks(nodes)
       IN  /\ qtasks' = tasks
           /\ doneOrder' = <<>>
           /\ round' = IF tasks = <<>>
                         THEN Synthesis(call, Gather(tasks, <<>>))
                         ELSE [call EXCEPT !.phase = "dispatched"]
    /\ dist' = NoDist
    /\ utasks' = <<>>
    /\ UNCHANGED <<nodeVars, initN>>

\* NotebookLMNode.ask_question up to its POST, on a task not yet started;
\* calls counts the runs of ask_question for the task
QueryStep(t) ==
    IF notebook_id[t.node] = None
      THEN [t EXCEPT !.st = "failed", !.calls = t.calls + 1, !.err = NotCreated]
      ELSE [t EXCEPT !.st = "inflight", !.calls = t.calls + 1]

\* the exception ask_question raises on handle h for an error body e (line 85):
\* Exception(f"Failed to query notebook: {error}")
QueryError(h, e) == Exc("Failed to query notebook", e)

\* the tasks that failed at their first step, in task order
RECURSIVE FailedUpTo(_, _)
FailedUpTo(tasks, n) ==
    IF n = 0 THEN <<>>
    ELSE FailedUpTo(tasks, n - 1) \o (IF tasks[n].st = "failed" THEN <<n>> ELSE <<>>)

\* the task whose exception gather raises: the first one to have failed
FirstRaised(tasks, order) ==
    order[CHOOSE m \in 1..Len(order) :
            /\ tasks[order[m]].st = "failed"
            /\ \A l \in 1..(m - 1) : tasks[order[l]].st # "failed"]

\* gather(return_exceptions=True) instead: the exceptions are results
RoundAfterReturnExceptions(r, tasks, order) ==
    IF r.phase \notin {"dispatched", "collecting"} THEN r
    ELSE IF \A k \in 1..Len(tasks) : tasks[k].st \in {"ok", "failed"}
      THEN [r EXCEPT !.phase = "collected", !.responses = Gather(tasks, order)]
      ELSE [r EXCEPT !.phase = "collecting"]

\* asyncio.wait(FIRST_COMPLETED) instead: going on at the first result
RoundAfterFirstCompleted(r, tasks, order) ==
    IF r.phase \notin {"dispatched", "collecting"} THEN r
    ELSE IF Failed(tasks) # {}
      THEN [r EXCEPT !.phase = "failed", !.err = tasks[FirstRaised(tasks, order)].err]
      ELSE IF \E k \in 1..Len(tasks) : tasks[k].st = "ok"
        THEN [r EXCEPT !.phase = "collected", !.responses = Gather(tasks, order)]
        ELSE [r EXCEPT !.phase = "collecting"]

\* what the awaiting process_query sees of its gather: the exception of the
\* first task to fail, or, once every task is done, the result list
RoundAfter(r, tasks, order) ==
    IF r.phase \notin {"dispatched", "collecting"} THEN r
    ELSE IF Failed(tasks) # {}
      THEN [r EXCEPT !.phase = "failed", !.err = tasks[FirstRaised(tasks, order)].err]
      ELSE IF \A k \in 1..Len(tasks) : tasks[k].st = "ok"
        THEN [r EXCEPT !.phase = "collected", !.responses = Gather(tasks, order)]
        ELSE [r EXCEPT !.phase = "collecting"]

\* the first steps of the query tasks, in task order
QueryStart ==
    /\ round.phase = "dispatched"
    /\ qtasks' = [k \in 1..Len(qtasks) |-> QueryStep(qtasks[k])]
    /\ doneOrder' = FailedUpTo(qtasks', Len(qtasks))
    /\ round' = RoundAfter(round, qtasks', doneOrder')
    /\ UNCHANGED <<nodeVars, initN, distVars>>

\* a reply handler that runs ask_question once more when the query fails
QueryReplyRetrying(k) ==
    /\ qtasks[k].st = "inflight"
    /\ \/ /\ \E a \in Answers : qtasks' = [qtasks EXCEPT ![k].st = "ok", ![k].res = a]
          /\ doneOrder' = Append(doneOrder, k)
       \/ /\ qtasks[k].calls < 2
          /\ qtasks' = [qtasks EXCEPT ![k].calls = qtasks[k].calls + 1]
          /\ doneOrder' = doneOrder
       \/ /\ qtasks[k].calls >= 2
          /\ \E e \in RemoteErrors :
               qtasks' = [qtasks EXCEPT ![k].st = "failed",
                                        ![k].err = QueryError(qtasks[k].node, e)]
          /\ doneOrder' = Append(doneOrder, k)
    /\ round' = RoundAfter(round, qtasks', doneOrder')
    /\ UNCHANGED <<nodeVars, initN, distVars>>

\* a reply handler that drops a node from the pool when its query fails
QueryReplyEvicting(k) ==
    /\ qtasks[k].st = "inflight"
    /\ \/ /\ \E a \in Answers : qtasks' = [qtasks EXCEPT ![k].st = "ok", ![k].res = a]
          /\ nodes' = nodes
       \/ /\ \E e \in RemoteErrors :
               qtasks' = [qtasks EXCEPT ![k].st = "failed",
                                        ![k].err = QueryError(qtasks[k].node, e)]
          /\ nodes' = SelectSeq(nodes, LAMBDA h : h # qtasks[k].node)
    /\ doneOrder' = Append(doneOrder, k)
    /\ round' = RoundAfter(round, qtasks', doneOrder')
    /\ UNCHANGED <<notebook_id, node_id, allocated, creating, workspaces>>
    /\ UNCHANGED <<initN, distVars>>

\* the response to one query: 200 returns data["response"], anything else
\* raises Exception("Failed to query notebook: <error>")
QueryReply(k) ==
    /\ qtasks[k].st = "inflight"
    /\ \/ \E a \in Answers : qtasks' = [qtasks EXCEPT ![k].st = "ok", ![k].res = a]
       \/ \E e \in RemoteErrors :
            qtasks' = [qtasks EXCEPT ![k].st = "failed",
                                     ![k].err = QueryError(qtasks[k].node, e)]
    /\ doneOrder' = Append(doneOrder, k)
    /\ round' = RoundAfter(round, qtasks', doneOrder')
    /\ UNCHANGED <<nodeVars, initN, distVars>>

\* the remote service never answers one query: its task stays pending for ever
QueryHang(k) ==
    /\ qtasks[k].st = "inflight"
    /\ qtasks' = [qtasks EXCEPT ![k].st = "hung"]
    /\ UNCHANGED <<round, doneOrder>>
    /\ UNCHANGED <<nodeVars, initN, distVars>>

\* process_query resumes with the responses and asks the scheduler node
Synthesize ==
    /\ round.phase = "collected"
    /\ round' = Synthesis(round, round.responses)
    /\ UNCHANGED <<qtasks, doneOrder>>
    /\ UNCHANGED <<nodeVars, initN, distVars>>

\* the response to the scheduler node's query
AggReply ==
    /\ round.phase = "synthesizing"
    /\ \/ \E a \in Answers :
            round' = [round EXCEPT !.phase = "done", !.final_response = a]
       \/ \E e \in RemoteErrors :
            round' = [round EXCEPT !.phase = "failed", !.err = QueryError(Agg, e)]
    /\ UNCHANGED <<qtasks, doneOrder>>
    /\ UNCHANGED <<nodeVars, initN, distVars>>

\* ----------------------------------------------------------------------
\* Specification
\* ----------------------------------------------------------------------
Next ==
    \/ InitializeScheduler
    \/ CreateReply(Agg)
    \/ \E created \in BOOLEAN : AddNode(created)
    \/ \E node_names \in NodeNameLists : InitializeNodes(node_names)
    \/ InitNodesReply
    \/ \E document_paths \in DocumentLists, documents_per_node \in Caps :
          DistributeDocuments(document_paths, documents_per_node)
    \/ UploadStart
    \/ \E k \in 1..Len(utasks) : UploadReply(k)
    \/ \E question \in Questions : ProcessQuery(question)
    \/ QueryStart
    \/ \E k \in 1..Len(qtasks) : QueryReply(k)
    \/ \E k \in 1..Len(qtasks) : QueryHang(k)
    \/ Synthesize
    \/ AggReply

Spec == Init /\ [][Next]_vars

\* The same program with callers that also hand add_node the scheduler_node
NextAnyNode == Next \/ AddSchedulerNode

SpecAnyNode == Init /\ [][NextAnyNode]_vars

\* The event loop runs every callback that is ready, and a request in flight is
\* either answered or never answered (QueryHang)
RoundProgress ==
    \/ QueryStart
    \/ \E k \in 1..Len(qtasks) : QueryReply(k)
    \/ Synthesize
    \/ AggReply

FairSpec == Spec /\ WF_vars(RoundProgress)

\* ----------------------------------------------------------------------
\* Properties
\* ----------------------------------------------------------------------
\* the documents of the upload tasks of the node at 0-based position i, in task order
RECURSIVE ShardUpTo(_, _)
ShardUpTo(i, n) ==
    IF n = 0 THEN <<>>
    ELSE ShardUpTo(i, n - 1) \o (IF utasks[n].pos = i THEN <<utasks[n].doc>> ELSE <<>>)

Shard(i) == ShardUpTo(i, Len(utasks))

WithinCapacity ==
    Len(dist.document_paths) <= Len(dist.pool) * dist.documents_per_node

\* C1: when len(D) <= N*c, the upload_document calls distribute_documents issues
\* give the node at pool position i exactly D[i*c : min((i+1)*c, len(D))], in
\* that order; every document goes to exactly one node, once; no node gets more
\* than c documents.
C1_Sharding ==
    (dist.phase # "idle" /\ WithinCapacity) =>
      LET D == dist.document_paths
          c == dist.documents_per_node
      IN  /\ \A i \in 0..(Len(dist.pool) - 1) :
                /\ Shard(i) = SubSeq(D, i * c + 1, Min((i + 1) * c, Len(D)))
                /\ Len(Shard(i)) <= c
          /\ \A k \in 1..Len(utasks) :
                /\ utasks[k].pos \in 0..(Len(dist.pool) - 1)
                /\ utasks[k].node = dist.pool[utasks[k].pos + 1]
          /\ Len(utasks) = Len(D)
          /\ \A j \in 1..Len(D) :
                Cardinality({k \in 1..Len(utasks) : utasks[k].doc = D[j]}) = 1

C1_Witness ==
    /\ dist.phase = "ok"
    /\ Len(dist.pool) = 2
    /\ dist.documents_per_node = 1
    /\ Len(dist.document_paths) = 2
    /\ Shard(1) = <<DocNames[2]>>

\* C2: when len(D) > N*c, distribute_documents fails with the capacity error
\* and has created no upload task, so no ingest call and no remote call is made.
C2_CapacityRejected ==
    (dist.phase # "idle" /\ ~WithinCapacity) =>
      /\ dist.phase = "failed"
      /\ dist.err = Exc("Too many documents", "")
      /\ utasks = <<>>

C2_Witness ==
    /\ dist.phase = "failed"
    /\ dist.err.msg = "Too many documents"
    /\ Len(dist.pool) = 1
    /\ dist.documents_per_node = 1
    /\ Len(dist.document_paths) = 2

\* process_query has its responses list
HasResponses ==
    \/ round.phase \in {"collected", "synthesizing", "done"}
    \/ round.phase = "failed" /\ round.summary_request # <<>>

\* C3: whatever the order of completion, the responses list has one entry per
\* node of the pool at dispatch, and its i-th entry is the answer the i-th
\* node's query returned.
C3_ResponseOrder ==
    HasResponses =>
      /\ Len(round.responses) = Len(round.pool)
      /\ Len(qtasks) = Len(round.pool)
      /\ \A i \in 1..Len(round.pool) :
            /\ qtasks[i].node = round.pool[i]
            /\ qtasks[i].st = "ok"
            /\ round.responses[i] = qtasks[i].res

C3_Witness ==
    /\ round.phase = "done"
    /\ Len(round.pool) = 2
    /\ doneOrder = <<2, 1>>
    /\ round.responses[1] # round.responses[2]

\* C4: a round in which a node query failed ends in failure and sends nothing
\* to the scheduler node; a synthesis is only built from the answers of all nodes.
C4_AllOrNothing ==
    /\ (\E k \in 1..Len(qtasks) : qtasks[k].st = "failed") =>
          /\ round.phase = "failed"
          /\ round.aggCalls = 0
          /\ round.summary_request = <<>>
    /\ round.summary_request # <<>> =>
          Len(round.summary_request) = Len(round.pool) + 2

C4_Witness ==
    /\ Len(qtasks) = 2
    /\ qtasks[1].st = "ok"
    /\ qtasks[2].st = "failed"
    /\ qtasks[2].err.msg = "Failed to query notebook"
    /\ notebook_id[Agg] # None
    /\ round.phase = "failed"

\* C5: the query to the scheduler node is sent only when every node query of
\* the round has completed successfully; none is outstanding at that time.
C5_SynthesisAfterAll ==
    (round.aggCalls > 0 \/ round.phase \in {"synthesizing", "done"}) =>
      \A k \in 1..Len(qtasks) : qtasks[k].st = "ok"

C5_Witness ==
    /\ round.phase = "synthesizing"
    /\ round.aggCalls = 1
    /\ Len(qtasks) = 2

\* C6: a round in which a node's query never completes still ends, in failure.
C6_RoundTimeout ==
    [](((\E k \in 1..Len(qtasks) : qtasks[k].st = "hung")
          /\ round.phase = "collecting") => <>(round.phase = "failed"))

\* C7: process_query on an empty pool fails with the precondition error and
\* sends no synthesis request.
C7_EmptyPoolRejected ==
    (round.phase # "idle" /\ round.pool = <<>>) =>
      /\ round.phase = "failed"
      /\ round.err = NotCreated
      /\ round.aggCalls = 0

\* the tasks of a sequence that take their first step
Started(old, new) ==
    {k \in 1..Len(old) : Len(new) = Len(old) /\ old[k].st = "created"
                            /\ new[k].st # "created"}

C8_UploadStep ==
    \A k \in Started(utasks, utasks') :
      (notebook_id[utasks[k].node] = None) =>
        (/\ utasks'[k] = [utasks[k] EXCEPT !.st = "failed", !.calls = 1,
                                         !.err = NotCreated]
         /\ ~utasks'[k].read
         /\ ~utasks'[k].sent
         /\ notebook_id' = notebook_id
         /\ node_id' = node_id)

C8_QueryStep ==
    \A k \in Started(qtasks, qtasks') :
      (notebook_id[qtasks[k].node] = None) =>
        (/\ qtasks'[k] = [qtasks[k] EXCEPT !.st = "failed", !.calls = 1,
                                         !.err = NotCreated]
         /\ notebook_id' = notebook_id
         /\ node_id' = node_id)

C8_SchedulerStep ==
    (/\ round' # round
     /\ round.phase # "synthesizing"
     /\ round'.summary_request # <<>>
     /\ notebook_id[Agg] = None) =>
       (/\ round'.phase = "failed"
        /\ round'.err = NotCreated
        /\ round'.aggCalls = 0
        /\ notebook_id' = notebook_id
        /\ node_id' = node_id)

\* C8: upload_document and ask_question on a handle with no notebook_id raise
\* "Notebook not created yet" before any request is sent and before the
\* document is read, and change nothing of the handle.
C8_Precondition == [][C8_UploadStep /\ C8_QueryStep /\ C8_SchedulerStep]_vars

C8_Witness ==
    /\ Len(utasks) = 2
    /\ utasks[1].st = "failed" /\ utasks[1].err = NotCreated
    /\ utasks[2].sent

\* C9: a notebook_id that is bound never changes.
C9_BoundOnce ==
    [][\A h \in Handles : notebook_id[h] # None => notebook_id'[h] = notebook_id[h]]_vars

\* C10: the pool is not mutated while a distribution or a round is in flight.
C10_PoolStableInFlight ==
    [][(InFlight(dist.phase) \/ InFlight(round.phase)) => nodes' = nodes]_vars

\* ----------------------------------------------------------------------
\* C11: whatever operations the callers run, the scheduler_node is never a
\* member of the pool and upload_document is never run on it.
C11_AggregatorApart ==
    /\ \A i \in 1..Len(nodes) : nodes[i] # Agg
    /\ \A k \in 1..Len(utasks) : utasks[k].node # Agg

\* ----------------------------------------------------------------------
\* a step of distribute_documents or process_query, or of one of their tasks
CallStep == dist' # dist \/ utasks' # utasks \/ round' # round \/ qtasks' # qtasks

\* C12: no step of a distribute_documents call or of a process_query round,
\* failing or not, changes the pool (the sequence of handles), a handle's
\* notebook_id or node_id, or the scheduler node: after a failed call they are
\* what the call found.
C12_FailureKeepsPool ==
    [][CallStep => (/\ nodes' = nodes
                    /\ notebook_id' = notebook_id
                    /\ node_id' = node_id
                    /\ workspaces' = workspaces)]_vars

\* a round has failed on a node's error while pool and scheduler node are all
\* bound: the next process_query finds the handles it needs
C12_Witness ==
    /\ round.phase = "failed"
    /\ Failed(qtasks) # {}
    /\ Len(nodes) = 2
    /\ nodes = round.pool
    /\ \A i \in 1..Len(nodes) : notebook_id[nodes[i]] # None
    /\ notebook_id[Agg] # None

\* ----------------------------------------------------------------------
\* the upload tasks after the step are those of the same call
SameBatch ==
    /\ Len(utasks') = Len(utasks)
    /\ \E k \in 1..Len(utasks') : utasks'[k].st # "created"

C13_Outcome ==
    /\ dist.phase = "ok" => \A k \in 1..Len(utasks) : utasks[k].st = "ok"
    /\ (dist.phase # "idle" /\ Failed(utasks) # {}) => dist.phase = "failed"

C13_Kept ==
    SameBatch =>
      \A k \in 1..Len(utasks) :
         /\ utasks[k].st = "ok" => utasks'[k].st = "ok"
         /\ utasks[k].sent => utasks'[k].sent /\ utasks'[k].calls = 1

\* C13: distribute_documents has succeeded only when every upload_document of
\* the call succeeded, and has failed as soon as one of them failed; an upload
\* that was sent or that succeeded stays so whatever happens to the others:
\* the call sends nothing further for it.
C13_AllUploadsOrFailure == [][C13_Outcome' /\ C13_Kept]_vars

C13_Witness ==
    /\ dist.phase = "failed"
    /\ Len(utasks) = 2
    /\ utasks[1].st = "ok"
    /\ utasks[2].st = "failed" /\ utasks[2].sent

\* ----------------------------------------------------------------------
\* the "Node k Response" blocks of a summary request, in their order
Blocks(req) == SelectSeq(req, LAMBDA seg : seg.kind = "response")

\* the places of the request where the question is quoted
QuestionAt(req, question) ==
    {p \in 1..Len(req) : req[p].kind = "question" /\ req[p].text = question}

\* one block per node query, the k-th labelled k and carrying the k-th answer
LabeledBlocks(req) ==
    /\ Len(Blocks(req)) = Len(qtasks)
    /\ \A k \in 1..Len(qtasks) :
          /\ qtasks[k].st = "ok"
          /\ Blocks(req)[k].label = Str(k)
          /\ Blocks(req)[k].text = qtasks[k].res

\* C14 as stated: the summary request holds one labelled block per answer, in
\* node order, followed by the question.
C14_QuestionAfterBlocks ==
    round.summary_request # <<>> =>
      LET req == round.summary_request
      IN  /\ LabeledBlocks(req)
          /\ \E p \in QuestionAt(req, round.question) :
                \A j \in 1..Len(req) : req[j].kind = "response" => j < p

\* C14 amended: the summary request holds one labelled block per answer, in
\* node order; the question is quoted once, before the first block, and the
\* instructions that follow the last block do not repeat it.
C14_QuestionBeforeBlocks ==
    round.summary_request # <<>> =>
      LET req == round.summary_request
      IN  /\ LabeledBlocks(req)
          /\ QuestionAt(req, round.question) = {1}
          /\ Len(req) = Len(qtasks) + 2
          /\ \A j \in 1..Len(req) : req[j].kind = "response" <=> (1 < j /\ j < Len(req))
          /\ req[Len(req)].kind = "instructions"

C14_Witness ==
    /\ round.phase = "synthesizing"
    /\ Len(qtasks) = 2
    /\ qtasks[1].res = "x" /\ qtasks[2].res = "y"
    /\ Len(round.summary_request) = 4

\* ----------------------------------------------------------------------
\* the exceptions a pool node's ask_question can raise
NodeQueryErrors ==
    {NotCreated} \cup {QueryError(h, e) : h \in Workers, e \in RemoteErrors}

\* C15: a round that fails because the scheduler node's query failed returns
\* an error that no failing pool node's query can produce.
C15_SynthesisErrorDistinct ==
    (round.phase = "failed" /\ round.aggCalls > 0) => round.err \notin NodeQueryErrors

\* ----------------------------------------------------------------------
\* the pool positions whose query, failing, would have raised the error err
Culprits(err) ==
    {j \in 1..Len(qtasks) :
        \/ err = NotCreated
        \/ \E e \in RemoteErrors : err = QueryError(qtasks[j].node, e)}

\* C17: when a round fails on a node's failed query, the error of the round
\* tells which node failed: it is an error that only that pool position raises.
C17_ErrorNamesNode ==
    (round.phase = "failed" /\ round.summary_request = <<>>) =>
       /\ round.err = qtasks[FirstRaised(qtasks, doneOrder)].err
       /\ Culprits(round.err) = {FirstRaised(qtasks, doneOrder)}

\* ----------------------------------------------------------------------
\* the runs of its operation a task has had: none before its first step, one
\* from then on
OneCall(t) == t.calls = (IF t.st = "created" THEN 0 ELSE 1)

\* C16: nothing is retried. A round has one ask_question task per pool
\* position, each run once, and sends the scheduler node at most one summary
\* request; a distribution has one upload_document task per document of the
\* plan, each run once, failed or not.
C16_NoRetries ==
    /\ Len(qtasks) = Len(round.pool)
    /\ \A k \in 1..Len(qtasks) : qtasks[k].node = round.pool[k] /\ OneCall(qtasks[k])
    /\ round.aggCalls <= 1
    /\ round.phase \in {"synthesizing", "done"} => round.aggCalls = 1
    /\ utasks # <<>> => Len(utasks) = Len(dist.document_paths)
    /\ \A k \in 1..Len(utasks) : OneCall(utasks[k])
    /\ \A k, l \in 1..Len(utasks) :
          (utasks[k].pos = utasks[l].pos /\ utasks[k].doc = utasks[l].doc) => k = l

\* a round of two queries that both failed at the remote service, each run once
C16_Witness ==
    /\ round.phase = "failed"
    /\ Len(qtasks) = 2
    /\ \A k \in 1..2 : /\ qtasks[k].st = "failed"
                        /\ qtasks[k].err # NotCreated
                        /\ qtasks[k].calls = 1

\* ----------------------------------------------------------------------
\* the step on which an initialize_nodes call returns its list
InitNodesReturns == initN' # initN /\ initN'.phase = "ok"

\* C18: when initialize_nodes(node_names) returns, the pool is the list of the
\* handles the call built, one per name and in the order of the names: the
\* i-th has node_id str(i), holds the notebook created under the i-th name,
\* and is no handle of the pool before the step nor the scheduler node.
C18_PoolReplaced ==
    [][InitNodesReturns =>
         LET node_names == initN'.node_names
         IN  /\ Len(nodes') = Len(node_names)
             /\ nodes' = initN'.nodes
             /\ \A i \in 1..Len(nodes') :
                   /\ node_id'[nodes'[i]] = Str(i)
                   /\ notebook_id'[nodes'[i]] # None
                   /\ workspaces'[nodes'[i]] = [name |-> node_names[i], node |-> Str(i)]
                   /\ nodes'[i] # Agg
                   /\ \A j \in 1..Len(nodes) : nodes[j] # nodes'[i]
                   /\ \A j \in 1..Len(nodes') : nodes'[j] = nodes'[i] => j = i]_vars

\* a call for two names has returned and its handles are the pool
C18_Witness ==
    /\ initN.phase = "ok"
    /\ Len(initN.node_names) = 2
    /\ nodes = initN.nodes
    /\ workspaces[nodes[2]].name = initN.node_names[2]

\* ----------------------------------------------------------------------
\* C19: a step of initialize_nodes that does not return the list, a failing
\* one included, leaves the pool as it is, and a create_notebook that fails
\* ends the call with that error: the pool changes on the return only.
C19_AllOrNothing ==
    [][/\ (initN' # initN /\ initN'.phase # "ok") => nodes' = nodes
       /\ (initN.phase = "creating" /\ initN'.phase \notin {"creating", "ok"}) =>
             /\ initN'.phase = "failed"
             /\ \E e \in RemoteErrors : initN'.err = Exc("Failed to create notebook", e)
             /\ notebook_id' = notebook_id]_vars

\* the call failed on its second name: the first notebook exists, its handle
\* is in no pool
C19_Witness ==
    /\ initN.phase = "failed"
    /\ Len(initN.node_names) = 2
    /\ Len(initN.nodes) = 1
    /\ notebook_id[initN.nodes[1]] # None
    /\ \A j \in 1..Len(nodes) : nodes[j] # initN.nodes[1]

\* ----------------------------------------------------------------------
\* C20: a round works on the pool it found at its start. Its query tasks are
\* one per handle of that pool, in order, whatever add_node or initialize_nodes
\* make of the pool meanwhile; the responses and the blocks of the summary
\* request are as many as that pool had handles, each from its handle's task.
C20_PoolAtDispatch ==
    round.phase # "idle" =>
      /\ Len(qtasks) = Len(round.pool)
      /\ \A i \in 1..Len(qtasks) : qtasks[i].node = round.pool[i]
      /\ round.summary_request # <<>> =>
            /\ Len(round.responses) = Len(round.pool)
            /\ Len(Blocks(round.summary_request)) = Len(round.pool)
            /\ \A i \in 1..Len(round.pool) :
                  /\ qtasks[i].calls = 1
                  /\ round.responses[i] = qtasks[i].res
                  /\ Blocks(round.summary_request)[i].text = qtasks[i].res

\* a round over one handle was answered after a second handle had joined the
\* pool: one block, for the handle of the start
C20_Witness ==
    /\ round.phase = "done"
    /\ Len(round.pool) = 1
    /\ Len(nodes) = 2 /\ nodes[1] = round.pool[1]
    /\ Len(Blocks(round.summary_request)) = 1

====
